---- MODULE Spec2Model ----
\* js-dast: type safe array, sorted array, linked list, queue, stack and set.
\* Every container is one state variable holding the object's fields; every
\* public method is one action.  Indices are zero-based as in the source.
EXTENDS Integers, Sequences, FiniteSets, Bags, TLC

\* obj is the container the calls are made on (one object at a time: a
\* constructor call replaces it); op, args, ret and err record the last call.
VARIABLES obj, op, args, ret, err

vars == <<obj, op, args, ret, err>>

\* ---------------------------------------------------------------- bounds
MaxLen == 3
MaxNum == 2
MaxItems == 2

\* ---------------------------------------------------------------- values
\* A JavaScript value is its runtime kind and its payload.
Num(n) == [tag |-> "Number", v |-> n]
Str(n) == [tag |-> "String", v |-> n]
UNDEFINED == [tag |-> "Undefined", v |-> 0]

NumberValues == {Num(n) : n \in 0..MaxNum}
StringValues == {Str(0)}
Values == NumberValues \cup StringValues

TYPE == {"Number", "String"}

\* getArrayType's `undefined` result (no uniform type).
NoType == "undefined"

\* No object: the constructor threw.
Null == [class |-> "null"]

NoError == "none"
TypeError == "TypeError"
ErrorTypeSafe == "ErrorTypeSafe"
ErrorCapacity == "ErrorCapacity"

\* A loop or a recursion that never exits.
Diverges == "Diverges"

ValuesOf(type) == {x \in Values : x.tag = type}

\* Argument lists of one to MaxItems values.
ItemLists == UNION {[1..n -> Values] : n \in 1..MaxItems}

ItemListsOf(type) == UNION {[1..n -> ValuesOf(type)] : n \in 1..MaxItems}

NoArgs ==
    [class |-> "", type |-> "", items |-> <<>>, x |-> UNDEFINED, i |-> 0, j |-> <<>>,
     callback |-> ""]

\* ---------------------------------------------------------------- utils
getType(subject) == subject.tag

isType(subject, type) == getType(subject) = type

\* array[index]: a read outside 0..length-1 yields undefined.
At(array, index) ==
    IF index >= 0 /\ index < Len(array) THEN array[index + 1] ELSE UNDEFINED

\* getArrayType looking at the first element only.
getArrayTypeOfFirst(array) == getType(At(array, 0))

getArrayType(array) ==
    LET type == getType(At(array, 0))
    IN  IF \A k \in 1..Len(array) : isType(array[k], type) THEN type ELSE NoType

\* isInitialized on an array: it has at least one element.
isInitialized(items) == Len(items) > 0

\* isInitialized on the result of getArrayType: neither undefined nor "".
isInitializedType(type) == type # NoType /\ type # ""

\* The compare functions.  A result of NaN (a non-number operand of a - b) is
\* written 0: every caller only tests `> 0`, which is false for NaN.
COMPARE(c, a, b) ==
    CASE c = "NUMBER" ->
            IF a.tag = "Number" /\ b.tag = "Number" THEN a.v - b.v ELSE 0
      [] c = "NUMBER_DESCENDING" ->
            IF a.tag = "Number" /\ b.tag = "Number" THEN b.v - a.v ELSE 0
      [] c = "STRING" ->
            IF a.tag = "String" /\ b.tag = "String" THEN a.v - b.v ELSE 1
      [] c = "BY_HALF" ->
            IF a.tag = "Number" /\ b.tag = "Number"
            THEN (a.v \div 2) - (b.v \div 2) ELSE 0
      [] c = "DEFAULT" ->
            IF a.tag = b.tag THEN a.v - b.v ELSE IF a.tag = "Number" THEN -1 ELSE 1

\* COMPARE.DEFAULT calls a.toString() and b.toString(): on undefined that is a
\* TypeError.
compareThrows(c, a, b) == c = "DEFAULT" /\ (a = UNDEFINED \/ b = UNDEFINED)

setDefaultCompare(type) ==
    CASE type = "Number" -> "NUMBER"
      [] type = "String" -> "STRING"
      [] OTHER -> "DEFAULT"

\* The (type, compareFunc) pairs a caller constructs a sorted array with:
\* <<>> is an omitted compareFunc.  BY_HALF is a caller's comparator under
\* which 2k and 2k+1 tie.
CompareArgs ==
    {<<"Number", <<>>>>, <<"Number", <<"NUMBER_DESCENDING">>>>,
     <<"Number", <<"BY_HALF">>>>, <<"String", <<>>>>}

ComparesOf(type) ==
    {IF p[2] = <<>> THEN setDefaultCompare(type) ELSE p[2][1] :
        p \in {q \in CompareArgs : q[1] = type}}

\* ---------------------------------------------------------------- native Array
ToIntegerOrInfinity(arg) == IF arg = <<>> THEN 0 ELSE arg[1]

Min(a, b) == IF a < b THEN a ELSE b
Max(a, b) == IF a > b THEN a ELSE b

\* Array.prototype.slice(start, end), start and end non-negative.
ArraySlice(array, start, end) ==
    SubSeq(array, Min(start, Len(array)) + 1, Min(end, Len(array)))

\* Array.prototype.splice(start, deleteCount, ...items) called with deleteCount
\* present: an undefined deleteCount (<<>>) converts to 0.
ArraySplice(array, start, deleteCount, items) ==
    LET len == Len(array)
        actualStart == Min(start, len)
        actualDeleteCount ==
            Min(Max(ToIntegerOrInfinity(deleteCount), 0), len - actualStart)
    IN  [array |-> SubSeq(array, 1, actualStart) \o items
                     \o SubSeq(array, actualStart + actualDeleteCount + 1, len),
         removed |-> SubSeq(array, actualStart + 1, actualStart + actualDeleteCount)]

\* Array.prototype.fill(value, start, end), start and end non-negative.
ArrayFill(array, value, start, end) ==
    [k \in 1..Len(array) |->
        IF k - 1 >= Min(start, Len(array)) /\ k - 1 < Min(end, Len(array))
        THEN value ELSE array[k]]

\* A sort that leaves the array as it is.
ArraySortNone(array, c) == array

\* Array.prototype.sort(compare): stable; each element goes after the elements
\* already placed that do not compare greater.
RECURSIVE ArraySort(_, _)
ArraySort(array, c) ==
    IF Len(array) = 0 THEN <<>>
    ELSE LET front == ArraySort(SubSeq(array, 1, Len(array) - 1), c)
             x == array[Len(array)]
             pos == Cardinality({k \in 1..Len(front) : COMPARE(c, front[k], x) <= 0})
         IN  SubSeq(front, 1, pos) \o <<x>> \o SubSeq(front, pos + 1, Len(front))

\* ---------------------------------------------------------------- TypeSafeReadonlyArray
itemsAreOfThisArrayType(type, items) == getArrayType(items) = type

\* TypeSafeReadonlyArray.splice: the new array, the removed elements, the error.
ReadonlySplice(type, array, start, deleteCount, items) ==
    IF ~isInitialized(items) \/ itemsAreOfThisArrayType(type, items)
    THEN LET r == ArraySplice(array, start, deleteCount, items)
         IN  [array |-> r.array, removed |-> r.removed, err |-> NoError]
    ELSE [array |-> array, removed |-> <<>>, err |-> ErrorTypeSafe]

\* ---------------------------------------------------------------- TypeSafeSortedArray
\* findInsertionIndex with the comparison reversed.
RECURSIVE findInsertionIndexReversed(_, _, _, _, _)
findInsertionIndexReversed(array, c, item, left, right) ==
    IF left >= right THEN left
    ELSE LET middle == (left + right) \div 2
         IN  IF COMPARE(c, At(array, middle), item) < 0
             THEN findInsertionIndexReversed(array, c, item, left, middle)
             ELSE findInsertionIndexReversed(array, c, item, middle + 1, right)

\* findInsertionIndex going left on a tie as well (`>= 0`).
RECURSIVE findInsertionIndexBeforeTies(_, _, _, _, _)
findInsertionIndexBeforeTies(array, c, item, left, right) ==
    IF left >= right THEN left
    ELSE LET middle == (left + right) \div 2
         IN  IF COMPARE(c, At(array, middle), item) >= 0
             THEN findInsertionIndexBeforeTies(array, c, item, left, middle)
             ELSE findInsertionIndexBeforeTies(array, c, item, middle + 1, right)

RECURSIVE findInsertionIndex(_, _, _, _, _)
findInsertionIndex(array, c, item, left, right) ==
    IF left >= right THEN left
    ELSE LET middle == (left + right) \div 2
         IN  IF COMPARE(c, At(array, middle), item) > 0
             THEN findInsertionIndex(array, c, item, left, middle)
             ELSE findInsertionIndex(array, c, item, middle + 1, right)

\* Whether a compare call of _findInsertionIndex throws.
RECURSIVE findInsertionIndexThrows(_, _, _, _, _)
findInsertionIndexThrows(array, c, item, left, right) ==
    IF left >= right THEN FALSE
    ELSE LET middle == (left + right) \div 2
         IN  IF compareThrows(c, At(array, middle), item) THEN TRUE
             ELSE IF COMPARE(c, At(array, middle), item) > 0
                  THEN findInsertionIndexThrows(array, c, item, left, middle)
                  ELSE findInsertionIndexThrows(array, c, item, middle + 1, right)

RECURSIVE binarySearch(_, _, _, _, _)
binarySearch(c, item, array, left, right) ==
    IF right >= left
    THEN LET middle == left + (right - left) \div 2
         IN  IF At(array, middle) = item THEN middle
             ELSE IF COMPARE(c, At(array, middle), item) > 0
                  THEN binarySearch(c, item, array, left, middle - 1)
                  ELSE binarySearch(c, item, array, middle + 1, right)
    ELSE -1

RECURSIVE findFirstIndex(_, _, _)
findFirstIndex(array, searchElement, current) ==
    IF At(array, current - 1) # searchElement THEN current
    ELSE findFirstIndex(array, searchElement, current - 1)

RECURSIVE findLastIndex(_, _, _)
findLastIndex(array, searchElement, current) ==
    IF At(array, current + 1) # searchElement THEN current
    ELSE findLastIndex(array, searchElement, current + 1)

\* The call stack is exhausted.
RangeError == "RangeError"

\* _binarySearch ends in the TypeError of a compare call.
RECURSIVE binarySearchThrows(_, _, _, _, _)
binarySearchThrows(c, item, array, left, right) ==
    IF right >= left
    THEN LET middle == left + (right - left) \div 2
         IN  IF At(array, middle) = item THEN FALSE
             ELSE IF compareThrows(c, At(array, middle), item) THEN TRUE
             ELSE IF COMPARE(c, At(array, middle), item) > 0
                  THEN binarySearchThrows(c, item, array, left, middle - 1)
                  ELSE binarySearchThrows(c, item, array, middle + 1, right)
    ELSE FALSE

\* findFirstIndex never returns: a read before index 0 is identical to the
\* search element, and so is every read further down.
RECURSIVE findFirstIndexOverflows(_, _, _)
findFirstIndexOverflows(array, searchElement, current) ==
    IF At(array, current - 1) # searchElement THEN FALSE
    ELSE IF current - 1 < 0 THEN TRUE
    ELSE findFirstIndexOverflows(array, searchElement, current - 1)

\* findLastIndex never returns: a read past the last index is identical to the
\* search element, and so is every read further up.
RECURSIVE findLastIndexOverflows(_, _, _)
findLastIndexOverflows(array, searchElement, current) ==
    IF At(array, current + 1) # searchElement THEN FALSE
    ELSE IF current + 1 >= Len(array) THEN TRUE
    ELSE findLastIndexOverflows(array, searchElement, current + 1)

\* How _fineTuneBinarySearch ends: NoError, the TypeError of a compare call, or
\* RangeError for a walk that never returns.
fineTuneBinarySearchEnds(this, first, searchElement, fromIndex) ==
    LET array == IF fromIndex # 0
                 THEN ArraySlice(this.array, fromIndex, Len(this.array))
                 ELSE this.array
    IN  IF binarySearchThrows(this.compare, searchElement, array, 0, Len(array) - 1)
        THEN TypeError
        ELSE LET result == binarySearch(this.compare, searchElement, array, 0,
                                        Len(array) - 1)
             IN  IF result = -1 THEN NoError
                 ELSE IF first
                 THEN IF findFirstIndexOverflows(array, searchElement, result)
                      THEN RangeError ELSE NoError
                 ELSE IF findLastIndexOverflows(array, searchElement, result)
                      THEN RangeError ELSE NoError

\* _fineTuneBinarySearch with callback findFirstIndex (first = TRUE) or
\* findLastIndex.  fromIndex 0 is falsy, like an omitted fromIndex.
fineTuneBinarySearch(this, first, searchElement, fromIndex) ==
    LET array == IF fromIndex # 0
                 THEN ArraySlice(this.array, fromIndex, Len(this.array))
                 ELSE this.array
        result == binarySearch(this.compare, searchElement, array, 0, Len(array) - 1)
    IN  IF result # -1
        THEN IF first THEN findFirstIndex(array, searchElement, result)
                      ELSE findLastIndex(array, searchElement, result)
        ELSE -1

sortedIncludes(this, valueToFind, fromIndex) ==
    LET array == IF fromIndex # 0
                 THEN ArraySlice(this.array, fromIndex, Len(this.array))
                 ELSE this.array
    IN  binarySearch(this.compare, valueToFind, array, 0, Len(array) - 1) # -1

\* add(...items): each item in turn is placed by binary search and inserted
\* through TypeSafeReadonlyArray.splice, which throws on an item of another type.
RECURSIVE sortedAdd(_, _, _)
sortedAdd(this, items, k) ==
    IF k > Len(items) THEN [array |-> this.array, err |-> NoError]
    ELSE IF findInsertionIndexThrows(this.array, this.compare, items[k],
                                     0, Len(this.array))
    THEN [array |-> this.array, err |-> TypeError]
    ELSE LET index == findInsertionIndex(this.array, this.compare, items[k],
                                         0, Len(this.array))
             r == ReadonlySplice(this.type, this.array, index, <<0>>, <<items[k]>>)
         IN  IF r.err # NoError THEN [array |-> this.array, err |-> r.err]
             ELSE sortedAdd([this EXCEPT !.array = r.array], items, k + 1)

\* new TypeSafeSortedArray(type, compareFunc, ...items): super(type) makes the
\* empty array, then add(...items); a throw leaves no object.
newSortedArray(type, compareFunc, items) ==
    LET c == IF compareFunc = <<>> THEN setDefaultCompare(type) ELSE compareFunc[1]
        fresh == [class |-> "TypeSafeSortedArray", type |-> type, compare |-> c,
                  array |-> <<>>]
        r == sortedAdd(fresh, items, 1)
    IN  IF r.err = NoError
        THEN [obj |-> [fresh EXCEPT !.array = r.array], err |-> NoError]
        ELSE [obj |-> Null, err |-> r.err]

NewSortedArray(type, compareFunc, items) ==
    LET
        r == newSortedArray(type, compareFunc, items)
    IN  /\ obj' = r.obj
        /\ op' = "new"
        /\ args' = [NoArgs EXCEPT !.class = "TypeSafeSortedArray", !.type = type, !.items = items]
        /\ ret' = 0
        /\ err' = r.err

SortedAdd(items) ==
    /\ obj.class = "TypeSafeSortedArray"
    /\ Len(obj.array) + Len(items) <= MaxLen
    /\ LET r == sortedAdd(obj, items, 1)
       IN  /\ obj' = [obj EXCEPT !.array = r.array]
           /\ err' = r.err
           /\ ret' = IF r.err = NoError THEN Len(r.array) ELSE 0
    /\ op' = "add"
    /\ args' = [NoArgs EXCEPT !.items = items]

SortedIncludes(valueToFind, fromIndex) ==
    /\ obj.class = "TypeSafeSortedArray"
    /\ op' = "includes"
    /\ args' = [NoArgs EXCEPT !.x = valueToFind, !.i = fromIndex]
    /\ ret' = sortedIncludes(obj, valueToFind, fromIndex)
    /\ err' = NoError
    /\ UNCHANGED obj

\* indexOf(searchElement, fromIndex).  The unbounded recursion of the walk is
\* in tail position: it ends in a RangeError where calls consume stack and
\* never ends where tail calls do not.
SortedIndexOf(searchElement, fromIndex) ==
    /\ obj.class = "TypeSafeSortedArray"
    /\ op' = "indexOf"
    /\ args' = [NoArgs EXCEPT !.x = searchElement, !.i = fromIndex]
    /\ LET ends == fineTuneBinarySearchEnds(obj, TRUE, searchElement, fromIndex)
       IN  /\ ret' = IF ends = NoError
                     THEN fineTuneBinarySearch(obj, TRUE, searchElement, fromIndex)
                     ELSE UNDEFINED
           /\ err' \in (IF ends = RangeError THEN {RangeError, Diverges} ELSE {ends})
    /\ UNCHANGED obj

SortedLastIndexOf(searchElement, fromIndex) ==
    /\ obj.class = "TypeSafeSortedArray"
    /\ op' = "lastIndexOf"
    /\ args' = [NoArgs EXCEPT !.x = searchElement, !.i = fromIndex]
    /\ LET ends == fineTuneBinarySearchEnds(obj, FALSE, searchElement, fromIndex)
       IN  /\ ret' = IF ends = NoError
                     THEN fineTuneBinarySearch(obj, FALSE, searchElement, fromIndex)
                     ELSE UNDEFINED
           /\ err' \in (IF ends = RangeError THEN {RangeError, Diverges} ELSE {ends})
    /\ UNCHANGED obj

\* TypeSafeSortedArray.splice(start, deleteCount, ...items): items are dropped.
SortedSplice(start, deleteCount) ==
    /\ obj.class = "TypeSafeSortedArray"
    /\ LET r == ReadonlySplice(obj.type, obj.array, start, deleteCount, <<>>)
       IN  /\ obj' = [obj EXCEPT !.array = r.array]
           /\ ret' = r.removed
           /\ err' = r.err
    /\ op' = "splice"
    /\ args' = [NoArgs EXCEPT !.i = start, !.j = deleteCount]

\* TypeSafeReadonlyArray.fill, inherited.
SortedFill(value, start, end) ==
    /\ obj.class = "TypeSafeSortedArray"
    /\ IF isType(value, obj.type)
       THEN /\ obj' = [obj EXCEPT !.array = ArrayFill(obj.array, value, start, end)]
            /\ err' = NoError
       ELSE /\ err' = ErrorTypeSafe
            /\ UNCHANGED obj
    /\ op' = "fill"
    /\ args' = [NoArgs EXCEPT !.x = value, !.i = start, !.j = <<end>>]
    /\ ret' = 0

\* TypeSafeReadonlyArray.pop, inherited.
SortedPop ==
    /\ obj.class = "TypeSafeSortedArray"
    /\ obj' = [obj EXCEPT !.array = SubSeq(obj.array, 1, Len(obj.array) - 1)]
    /\ op' = "pop"
    /\ args' = NoArgs
    /\ ret' = At(obj.array, Len(obj.array) - 1)
    /\ err' = NoError

\* TypeSafeReadonlyArray.shift, inherited.
SortedShift ==
    /\ obj.class = "TypeSafeSortedArray"
    /\ obj' = [obj EXCEPT !.array = SubSeq(obj.array, 2, Len(obj.array))]
    /\ op' = "shift"
    /\ args' = NoArgs
    /\ ret' = At(obj.array, 0)
    /\ err' = NoError

\* The callbacks a caller passes to filter: each sees the element's value.
Callbacks == {"ALWAYS", "POSITIVE"}

CallbackResult(callback, value) ==
    CASE callback = "ALWAYS" -> TRUE
      [] callback = "POSITIVE" -> value.tag = "Number" /\ value.v > 0

\* Array.prototype.filter(callback)
RECURSIVE ArrayFilter(_, _)
ArrayFilter(array, callback) ==
    IF Len(array) = 0 THEN <<>>
    ELSE (IF CallbackResult(callback, array[1]) THEN <<array[1]>> ELSE <<>>)
            \o ArrayFilter(SubSeq(array, 2, Len(array)), callback)

\* TypeSafeSortedArray.slice(start, end): a new sorted array given the slice.
sortedSlice(this, start, end) ==
    newSortedArray(this.type, <<this.compare>>, ArraySlice(this.array, start, end))

\* TypeSafeSortedArray.filter(callback): a new sorted array given the elements
\* that pass.
sortedFilter(this, callback) ==
    newSortedArray(this.type, <<this.compare>>, ArrayFilter(this.array, callback))

SortedSlice(start, end) ==
    /\ obj.class = "TypeSafeSortedArray"
    /\ LET r == sortedSlice(obj, start, end)
       IN  /\ ret' = r.obj
           /\ err' = r.err
    /\ op' = "slice"
    /\ args' = [NoArgs EXCEPT !.i = start, !.j = <<end>>]
    /\ UNCHANGED obj

SortedFilter(callback) ==
    /\ obj.class = "TypeSafeSortedArray"
    /\ LET r == sortedFilter(obj, callback)
       IN  /\ ret' = r.obj
           /\ err' = r.err
    /\ op' = "filter"
    /\ args' = [NoArgs EXCEPT !.callback = callback]
    /\ UNCHANGED obj

\* The transforms a caller passes to map: each sees the element's value.
Transforms == {"IDENTITY", "COMPLEMENT", "TO_STRING", "MIXED", "TO_UNDEFINED"}

TransformResult(transform, value) ==
    CASE transform = "IDENTITY" -> value
      [] transform = "COMPLEMENT" ->
            IF value.tag = "Number" THEN Num(MaxNum - value.v) ELSE value
      [] transform = "TO_STRING" -> Str(value.v)
      [] transform = "MIXED" ->
            IF value.tag = "Number" /\ value.v > 0 THEN Str(value.v) ELSE Num(0)
      [] transform = "TO_UNDEFINED" -> UNDEFINED

\* Array.prototype.map(callback)
ArrayMap(array, transform) ==
    [k \in 1..Len(array) |-> TransformResult(transform, array[k])]

\* TypeSafeSortedArray._mapMethods with Array.prototype.map: a new sorted array
\* under the default comparator of the results' type, or the plain array.
sortedMap(this, transform) ==
    LET attempt == ArrayMap(this.array, transform)
        type == getArrayType(attempt)
    IN  IF isInitializedType(type)
        THEN newSortedArray(type, <<setDefaultCompare(type)>>, attempt)
        ELSE [obj |-> [class |-> "Array", array |-> attempt], err |-> NoError]

SortedMap(transform) ==
    /\ obj.class = "TypeSafeSortedArray"
    /\ LET r == sortedMap(obj, transform)
       IN  /\ ret' = r.obj
           /\ err' = r.err
    /\ op' = "map"
    /\ args' = [NoArgs EXCEPT !.callback = transform]
    /\ UNCHANGED obj

SortedSetCompareFunction(c) ==
    /\ obj.class = "TypeSafeSortedArray"
    /\ obj' = [obj EXCEPT !.compare = c, !.array = ArraySort(obj.array, c)]
    /\ op' = "setCompareFunction"
    /\ args' = NoArgs
    /\ ret' = 0
    /\ err' = NoError

\* ---------------------------------------------------------------- TypeSafeArray
\* The constructor without its check of the initial items.
newArrayUnchecked(type, items) ==
    [obj |-> [class |-> "TypeSafeArray", type |-> type, array |-> items],
     err |-> NoError]

\* new TypeSafeArray(type, ...items), through TypeSafeReadonlyArray's constructor.
newArray(type, items) ==
    IF isInitialized(items) /\ getArrayType(items) # type
    THEN [obj |-> Null, err |-> ErrorTypeSafe]
    ELSE [obj |-> [class |-> "TypeSafeArray", type |-> type, array |-> items],
          err |-> NoError]

\* array[index] = value: an index past the end leaves holes, which read as
\* undefined.
ArraySet(array, index, value) ==
    [k \in 1..Max(Len(array), index + 1) |->
        IF k = index + 1 THEN value
        ELSE IF k <= Len(array) THEN array[k] ELSE UNDEFINED]

\* TypeSafeArray.concat(...items), items being plain values: the result is
\* built with the type found in the concatenation.
arrayConcat(this, items) ==
    LET attempt == this.array \o items
        type == getArrayType(attempt)
    IN  IF isInitializedType(type)
        THEN newArray(type, attempt)
        ELSE [obj |-> Null, err |-> ErrorTypeSafe]

ArrayConcat(items) ==
    /\ obj.class = "TypeSafeArray"
    /\ LET r == arrayConcat(obj, items)
       IN  /\ ret' = r.obj
           /\ err' = r.err
    /\ op' = "concat"
    /\ args' = [NoArgs EXCEPT !.items = items]
    /\ UNCHANGED obj

NewArray(type, items) ==
    LET r == newArray(type, items)
    IN  /\ obj' = r.obj
        /\ op' = "new"
        /\ args' = [NoArgs EXCEPT !.class = "TypeSafeArray", !.type = type, !.items = items]
        /\ ret' = 0
        /\ err' = r.err

ArrayPush(items) ==
    /\ obj.class = "TypeSafeArray"
    /\ Len(obj.array) + Len(items) <= MaxLen
    /\ IF itemsAreOfThisArrayType(obj.type, items)
       THEN /\ obj' = [obj EXCEPT !.array = obj.array \o items]
            /\ ret' = Len(obj.array) + Len(items)
            /\ err' = NoError
       ELSE /\ UNCHANGED obj
            /\ ret' = 0
            /\ err' = ErrorTypeSafe
    /\ op' = "push"
    /\ args' = [NoArgs EXCEPT !.items = items]

ArrayUnshift(items) ==
    /\ obj.class = "TypeSafeArray"
    /\ Len(obj.array) + Len(items) <= MaxLen
    /\ IF itemsAreOfThisArrayType(obj.type, items)
       THEN /\ obj' = [obj EXCEPT !.array = items \o obj.array]
            /\ ret' = Len(obj.array) + Len(items)
            /\ err' = NoError
       ELSE /\ UNCHANGED obj
            /\ ret' = 0
            /\ err' = ErrorTypeSafe
    /\ op' = "unshift"
    /\ args' = [NoArgs EXCEPT !.items = items]

ArraySetAt(index, value) ==
    /\ obj.class = "TypeSafeArray"
    /\ index < MaxLen
    /\ IF isType(value, obj.type)
       THEN /\ obj' = [obj EXCEPT !.array = ArraySet(obj.array, index, value)]
            /\ err' = NoError
       ELSE /\ UNCHANGED obj
            /\ err' = ErrorTypeSafe
    /\ op' = "set"
    /\ args' = [NoArgs EXCEPT !.x = value, !.i = index]
    /\ ret' = 0

\* TypeSafeReadonlyArray.fill, inherited.
ArrayFillRange(value, start, end) ==
    /\ obj.class = "TypeSafeArray"
    /\ IF isType(value, obj.type)
       THEN /\ obj' = [obj EXCEPT !.array = ArrayFill(obj.array, value, start, end)]
            /\ err' = NoError
       ELSE /\ UNCHANGED obj
            /\ err' = ErrorTypeSafe
    /\ op' = "fill"
    /\ args' = [NoArgs EXCEPT !.x = value, !.i = start, !.j = <<end>>]
    /\ ret' = 0

\* TypeSafeReadonlyArray.splice, inherited.
ArraySpliceItems(start, deleteCount, items) ==
    /\ obj.class = "TypeSafeArray"
    /\ Len(obj.array) + Len(items) <= MaxLen
    /\ LET r == ReadonlySplice(obj.type, obj.array, start, deleteCount, items)
       IN  /\ obj' = [obj EXCEPT !.array = r.array]
           /\ ret' = r.removed
           /\ err' = r.err
    /\ op' = "splice"
    /\ args' = [NoArgs EXCEPT !.items = items, !.i = start, !.j = deleteCount]

\* TypeSafeReadonlyArray.pop, inherited.
ArrayPop ==
    /\ obj.class = "TypeSafeArray"
    /\ obj' = [obj EXCEPT !.array = SubSeq(obj.array, 1, Len(obj.array) - 1)]
    /\ op' = "pop"
    /\ args' = NoArgs
    /\ ret' = At(obj.array, Len(obj.array) - 1)
    /\ err' = NoError

\* ---------------------------------------------------------------- LinkedList
\* A list object holds head, tail, size and its nodes: a function from node
\* references to [value, prev, next].  NULL is the null reference.  A node no
\* longer reachable is dropped (garbage).
NULL == 0

LinkedListNode(value) == [value |-> value, prev |-> NULL, next |-> NULL]

\* isInitialized on a node reference: not null (a node object has keys).
isInitializedNode(node) == node # NULL

\* The reference of a newly allocated node.
NewNode(nodes) ==
    CHOOSE n \in 1..(Cardinality(DOMAIN nodes) + 1) :
        n \notin DOMAIN nodes /\ \A m \in 1..(n - 1) : m \in DOMAIN nodes

\* LinkedList.push(...items), from item k on.
RECURSIVE listPush(_, _, _)
listPush(this, items, k) ==
    IF k > Len(items) THEN this
    ELSE LET node == NewNode(this.nodes)
             linked ==
                IF ~isInitializedNode(this.head)
                THEN [this EXCEPT !.head = node,
                                  !.nodes = (node :> LinkedListNode(items[k])) @@ this.nodes]
                ELSE [this EXCEPT
                        !.nodes = (node :> [LinkedListNode(items[k]) EXCEPT !.prev = this.tail])
                                    @@ [this.nodes EXCEPT ![this.tail].next = node]]
         IN  listPush([linked EXCEPT !.tail = node, !.size = this.size + 1], items, k + 1)

\* LinkedList.unshift(...items), from item i down to the first.
RECURSIVE listUnshift(_, _, _)
listUnshift(this, items, i) ==
    IF i < 1 THEN this
    ELSE LET node == NewNode(this.nodes)
             linked ==
                IF ~isInitializedNode(this.tail)
                THEN [this EXCEPT !.tail = node,
                                  !.nodes = (node :> LinkedListNode(items[i])) @@ this.nodes]
                ELSE [this EXCEPT
                        !.nodes = (node :> [LinkedListNode(items[i]) EXCEPT !.next = this.head])
                                    @@ [this.nodes EXCEPT ![this.head].prev = node]]
         IN  listUnshift([linked EXCEPT !.head = node, !.size = this.size + 1], items, i - 1)

\* removeByNode that leaves the prev link of the following node as it was.
removeByNodeNoBackLink(this, node) ==
    IF isInitializedNode(node)
    THEN LET n == this.nodes[node]
             a == IF node = this.head
                  THEN [this EXCEPT !.head = n.next]
                  ELSE [this EXCEPT !.nodes[n.prev].next = n.next]
             b == IF node = this.tail
                  THEN [a EXCEPT !.tail = n.prev]
                  ELSE a
         IN  [list |-> [b EXCEPT !.size = this.size - 1,
                                 !.nodes = [m \in DOMAIN b.nodes \ {node} |-> b.nodes[m]]],
              value |-> n.value]
    ELSE [list |-> this, value |-> UNDEFINED]

\* LinkedList.removeByNode(node): the list after the call and the value returned.
removeByNode(this, node) ==
    IF isInitializedNode(node)
    THEN LET n == this.nodes[node]
             a == IF node = this.head
                  THEN [this EXCEPT !.head = n.next]
                  ELSE [this EXCEPT !.nodes[n.prev].next = n.next]
             b == IF node = this.tail
                  THEN [a EXCEPT !.tail = n.prev]
                  ELSE [a EXCEPT !.nodes[n.next].prev = n.prev]
         IN  [list |-> [b EXCEPT !.size = this.size - 1,
                                 !.nodes = [m \in DOMAIN b.nodes \ {node} |-> b.nodes[m]]],
              value |-> n.value]
    ELSE [list |-> this, value |-> UNDEFINED]

\* pop taking the node at the head.
listPopHead(this) == removeByNode(this, this.head)

listPop(this) == removeByNode(this, this.tail)

listShift(this) == removeByNode(this, this.head)

\* LinkedList.getNodeByIndex(index): the walk from head, i steps done.
RECURSIVE walkToIndex(_, _, _, _)
walkToIndex(this, node, i, index) ==
    IF ~isInitializedNode(node) THEN NULL
    ELSE IF i = index THEN node
    ELSE walkToIndex(this, this.nodes[node].next, i + 1, index)

getNodeByIndex(this, index) ==
    IF index >= 0 /\ index < this.size
    THEN walkToIndex(this, this.head, 0, index)
    ELSE NULL

\* LinkedList.findNodeByValue(value): the first node from head holding the
\* value, or none.
RECURSIVE findNodeFrom(_, _, _)
findNodeFrom(this, node, value) ==
    IF ~isInitializedNode(node) THEN NULL
    ELSE IF this.nodes[node].value = value THEN node
    ELSE findNodeFrom(this, this.nodes[node].next, value)

findNodeByValue(this, value) == findNodeFrom(this, this.head, value)

\* LinkedList.remove(index)
listRemove(this, index) == removeByNode(this, getNodeByIndex(this, index))

\* LinkedList.removeByValue(value)
listRemoveByValue(this, value) == removeByNode(this, findNodeByValue(this, value))

\* LinkedList.setByNode(node, value)
setByNode(this, node, value) ==
    IF isInitializedNode(node)
    THEN [this EXCEPT !.nodes[node].value = value]
    ELSE this

\* LinkedList.values(): the values from head along next.
RECURSIVE valuesFrom(_, _)
valuesFrom(this, node) ==
    IF ~isInitializedNode(node) THEN <<>>
    ELSE <<this.nodes[node].value>> \o valuesFrom(this, this.nodes[node].next)

listValues(this) == valuesFrom(this, this.head)

\* The swap test of bubbleSort exchanging on ties too.
sortSwapsOnTies(c, a, b) == COMPARE(c, a, b) >= 0

\* The swap test of bubbleSort: compare(current.value, current.next.value) > 0.
sortSwaps(c, a, b) == COMPARE(c, a, b) > 0

\* The inner loop of bubbleSort, `while (current.next !== largest)`: reading
\* .next or .value of null is a TypeError.
RECURSIVE bubblePass(_, _, _, _, _)
bubblePass(this, c, current, largest, swapped) ==
    IF current = NULL
    THEN [list |-> this, swapped |-> swapped, current |-> current, err |-> TypeError]
    ELSE LET next == this.nodes[current].next
         IN  IF next = largest
             THEN [list |-> this, swapped |-> swapped, current |-> current,
                   err |-> NoError]
             ELSE IF next = NULL
             THEN [list |-> this, swapped |-> swapped, current |-> current,
                   err |-> TypeError]
             ELSE LET a == this.nodes[current].value
                      b == this.nodes[next].value
                  IN  IF compareThrows(c, a, b)
                      THEN [list |-> this, swapped |-> swapped, current |-> current,
                            err |-> TypeError]
                      ELSE IF sortSwaps(c, a, b)
                      THEN bubblePass([this EXCEPT !.nodes[current].value = b,
                                                   !.nodes[next].value = a],
                                      c, next, largest, TRUE)
                      ELSE bubblePass(this, c, next, largest, swapped)

\* The outer loop of bubbleSort, `while (swapped)`, entered with swapped true;
\* passes counts the iterations left before the loop is reported as never
\* exiting.
RECURSIVE bubbleSort(_, _, _, _)
bubbleSort(this, c, largest, passes) ==
    IF passes = 0 THEN [list |-> this, err |-> Diverges]
    ELSE LET p == bubblePass(this, c, this.head, largest, FALSE)
         IN  IF p.err # NoError THEN [list |-> p.list, err |-> p.err]
             ELSE IF p.swapped THEN bubbleSort(p.list, c, p.current, passes - 1)
             ELSE [list |-> p.list, err |-> NoError]

\* LinkedList.sort(compareFunction)
listSort(this, c) ==
    IF isInitializedNode(this.head)
    THEN bubbleSort(this, c, NULL, 2 * this.size + 2)
    ELSE [list |-> this, err |-> NoError]

\* LinkedList.entries(): the pairs [node.value, index] from head along next.
RECURSIVE entriesFrom(_, _, _)
entriesFrom(this, node, index) ==
    IF ~isInitializedNode(node) THEN <<>>
    ELSE <<<<this.nodes[node].value, Num(index)>>>>
            \o entriesFrom(this, this.nodes[node].next, index + 1)

listEntries(this) == entriesFrom(this, this.head, 0)

\* subject[key]: a property the subject does not have reads as undefined.
Property(subject, key) ==
    IF key \in DOMAIN subject THEN subject[key] ELSE UNDEFINED

\* new LinkedList() with no items.
newPlainList == [class |-> "LinkedList", head |-> NULL, tail |-> NULL, size |-> 0,
                 nodes |-> <<>>]

\* LinkedList.filter(callback), over the entries from the k-th on: each entry is
\* destructured as [index, node] and the callback is given node.value.
RECURSIVE listFilter(_, _, _, _)
listFilter(list, entries, k, callback) ==
    IF k > Len(entries) THEN list
    ELSE LET index == entries[k][1]
             node == entries[k][2]
             test == CallbackResult(callback, Property(node, "value"))
         IN  listFilter(IF test THEN listPush(list, <<Property(node, "value")>>, 1)
                        ELSE list,
                        entries, k + 1, callback)

\* ---------------------------------------------------------------- TypeSafeLinkedList
\* TypeSafeLinkedList.push(...items): the list after the call and the error.
typedPush(this, items) ==
    IF getArrayType(items) = this.type
    THEN [list |-> listPush(this, items, 1), err |-> NoError]
    ELSE [list |-> this, err |-> ErrorTypeSafe]

\* TypeSafeLinkedList.unshift(...items)
typedUnshift(this, items) ==
    IF getArrayType(items) = this.type
    THEN [list |-> listUnshift(this, items, Len(items)), err |-> NoError]
    ELSE [list |-> this, err |-> ErrorTypeSafe]

\* TypeSafeLinkedList.set(index, value)
typedSet(this, index, value) ==
    IF isType(value, this.type)
    THEN [list |-> setByNode(this, getNodeByIndex(this, index), value), err |-> NoError]
    ELSE [list |-> this, err |-> ErrorTypeSafe]

\* new TypeSafeLinkedList(type, ...items): the check of the initial items, the
\* empty LinkedList of super(), then this.push(...items).
newLinkedList(type, items) ==
    IF isInitialized(items) /\ getArrayType(items) # type
    THEN [obj |-> Null, err |-> ErrorTypeSafe]
    ELSE LET fresh == [class |-> "TypeSafeLinkedList", type |-> type, head |-> NULL,
                       tail |-> NULL, size |-> 0, nodes |-> <<>>]
             r == typedPush(fresh, items)
         IN  IF r.err = NoError THEN [obj |-> r.list, err |-> NoError]
             ELSE [obj |-> Null, err |-> r.err]

NewLinkedList(type, items) ==
    LET r == newLinkedList(type, items)
    IN  /\ obj' = r.obj
        /\ op' = "new"
        /\ args' = [NoArgs EXCEPT !.class = "TypeSafeLinkedList", !.type = type, !.items = items]
        /\ ret' = 0
        /\ err' = r.err

ListPush(items) ==
    /\ obj.class = "TypeSafeLinkedList"
    /\ obj.size + Len(items) <= MaxLen
    /\ LET r == typedPush(obj, items)
       IN  /\ obj' = r.list
           /\ err' = r.err
           /\ ret' = IF r.err = NoError THEN r.list.size ELSE 0
    /\ op' = "push"
    /\ args' = [NoArgs EXCEPT !.items = items]

ListUnshift(items) ==
    /\ obj.class = "TypeSafeLinkedList"
    /\ obj.size + Len(items) <= MaxLen
    /\ LET r == typedUnshift(obj, items)
       IN  /\ obj' = r.list
           /\ err' = r.err
           /\ ret' = IF r.err = NoError THEN r.list.size ELSE 0
    /\ op' = "unshift"
    /\ args' = [NoArgs EXCEPT !.items = items]

ListSet(index, value) ==
    /\ obj.class = "TypeSafeLinkedList"
    /\ LET r == typedSet(obj, index, value)
       IN  /\ obj' = r.list
           /\ err' = r.err
    /\ op' = "set"
    /\ args' = [NoArgs EXCEPT !.x = value, !.i = index]
    /\ ret' = 0

ListPop ==
    /\ obj.class = "TypeSafeLinkedList"
    /\ LET r == listPop(obj)
       IN  /\ obj' = r.list
           /\ ret' = r.value
    /\ op' = "pop"
    /\ args' = NoArgs
    /\ err' = NoError

ListShift ==
    /\ obj.class = "TypeSafeLinkedList"
    /\ LET r == listShift(obj)
       IN  /\ obj' = r.list
           /\ ret' = r.value
    /\ op' = "shift"
    /\ args' = NoArgs
    /\ err' = NoError

\* LinkedList.remove, inherited.
ListRemove(index) ==
    /\ obj.class = "TypeSafeLinkedList"
    /\ LET r == listRemove(obj, index)
       IN  /\ obj' = r.list
           /\ ret' = r.value
    /\ op' = "remove"
    /\ args' = [NoArgs EXCEPT !.i = index]
    /\ err' = NoError

\* LinkedList.removeByValue, inherited.
ListRemoveByValue(value) ==
    /\ obj.class = "TypeSafeLinkedList"
    /\ LET r == listRemoveByValue(obj, value)
       IN  /\ obj' = r.list
           /\ ret' = r.value
    /\ op' = "removeByValue"
    /\ args' = [NoArgs EXCEPT !.x = value]
    /\ err' = NoError

\* LinkedList.sort, inherited; returns the list itself.
ListSort(c) ==
    /\ obj.class = "TypeSafeLinkedList"
    /\ LET r == listSort(obj, c)
       IN  /\ obj' = r.list
           /\ err' = r.err
           /\ ret' = IF r.err = NoError THEN r.list ELSE UNDEFINED
    /\ op' = "sort"
    /\ args' = [NoArgs EXCEPT !.callback = c]

\* LinkedList.filter, inherited.
ListFilter(callback) ==
    /\ obj.class = "TypeSafeLinkedList"
    /\ ret' = listFilter(newPlainList, listEntries(obj), 1, callback)
    /\ op' = "filter"
    /\ args' = [NoArgs EXCEPT !.callback = callback]
    /\ err' = NoError
    /\ UNCHANGED obj

\* The callback results TypeSafeLinkedList.map collects, over the entries from
\* the k-th on: each entry is destructured as [index, node] and the callback is
\* given node.value.
RECURSIVE listMapAttempt(_, _, _)
listMapAttempt(entries, k, transform) ==
    IF k > Len(entries) THEN <<>>
    ELSE LET index == entries[k][1]
             node == entries[k][2]
         IN  <<TransformResult(transform, Property(node, "value"))>>
                \o listMapAttempt(entries, k + 1, transform)

\* new LinkedList(...items)
newPlainListOf(items) ==
    IF isInitialized(items) THEN listPush(newPlainList, items, 1) ELSE newPlainList

\* TypeSafeLinkedList.map(callback)
listMap(this, transform) ==
    LET attempt == listMapAttempt(listEntries(this), 1, transform)
        type == getArrayType(attempt)
    IN  IF isInitializedType(type)
        THEN newLinkedList(type, attempt)
        ELSE [obj |-> newPlainListOf(attempt), err |-> NoError]

ListMap(transform) ==
    /\ obj.class = "TypeSafeLinkedList"
    /\ LET r == listMap(obj, transform)
       IN  /\ ret' = r.obj
           /\ err' = r.err
    /\ op' = "map"
    /\ args' = [NoArgs EXCEPT !.callback = transform]
    /\ UNCHANGED obj

\* ---------------------------------------------------------------- TypeSafeQueue, TypeSafeStack
\* A queue or stack object holds its list (a TypeSafeLinkedList) and its
\* capacity: <<>> is Infinity, <<n>> is n.
\* new TypeSafeQueue(type, ...items) / new TypeSafeStack(type, ...items):
\* super() makes an empty list and capacity Infinity, then the list is
\* replaced by new TypeSafeLinkedList(type, ...items).
newAdapter(class, type, items) ==
    LET r == newLinkedList(type, items)
    IN  IF r.err = NoError
        THEN [obj |-> [class |-> class, list |-> r.obj, capacity |-> <<>>], err |-> NoError]
        ELSE [obj |-> Null, err |-> r.err]

\* this.size >= this.capacity
sizeReachedCapacity(this) ==
    this.capacity # <<>> /\ this.list.size >= this.capacity[1]

\* enqueue making room at the front: the newest element is the one removed.
RECURSIVE queueEnqueueEvictNewest(_, _, _)
queueEnqueueEvictNewest(this, items, i) ==
    IF i < 1 THEN [obj |-> this, err |-> NoError]
    ELSE LET a == IF sizeReachedCapacity(this)
                  THEN [this EXCEPT !.list = listShift(this.list).list]
                  ELSE this
             r == typedUnshift(a.list, <<items[i]>>)
         IN  IF r.err # NoError THEN [obj |-> a, err |-> r.err]
             ELSE queueEnqueueEvictNewest([a EXCEPT !.list = r.list], items, i - 1)

\* Queue.enqueue(...items), from item i down to the first: the object after the
\* call (after the throw, if any) and the error.
RECURSIVE queueEnqueue(_, _, _)
queueEnqueue(this, items, i) ==
    IF i < 1 THEN [obj |-> this, err |-> NoError]
    ELSE LET a == IF sizeReachedCapacity(this)
                  THEN [this EXCEPT !.list = listPop(this.list).list]
                  ELSE this
             r == typedUnshift(a.list, <<items[i]>>)
         IN  IF r.err # NoError THEN [obj |-> a, err |-> r.err]
             ELSE queueEnqueue([a EXCEPT !.list = r.list], items, i - 1)

\* Stack.push(...items), from item i on.
RECURSIVE stackPush(_, _, _)
stackPush(this, items, i) ==
    IF i > Len(items) THEN [obj |-> this, err |-> NoError]
    ELSE LET a == IF sizeReachedCapacity(this)
                  THEN [this EXCEPT !.list = listPop(this.list).list]
                  ELSE this
             r == typedPush(a.list, <<items[i]>>)
         IN  IF r.err # NoError THEN [obj |-> a, err |-> r.err]
             ELSE stackPush([a EXCEPT !.list = r.list], items, i + 1)

NewQueue(type, items) ==
    LET r == newAdapter("TypeSafeQueue", type, items)
    IN  /\ obj' = r.obj
        /\ op' = "new"
        /\ args' = [NoArgs EXCEPT !.class = "TypeSafeQueue", !.type = type, !.items = items]
        /\ ret' = 0
        /\ err' = r.err

NewStack(type, items) ==
    LET r == newAdapter("TypeSafeStack", type, items)
    IN  /\ obj' = r.obj
        /\ op' = "new"
        /\ args' = [NoArgs EXCEPT !.class = "TypeSafeStack", !.type = type, !.items = items]
        /\ ret' = 0
        /\ err' = r.err

QueueEnqueue(items) ==
    /\ obj.class = "TypeSafeQueue"
    /\ obj.capacity # <<>> \/ obj.list.size + Len(items) <= MaxLen
    /\ LET r == queueEnqueue(obj, items, Len(items))
       IN  /\ obj' = r.obj
           /\ err' = r.err
           /\ ret' = IF r.err = NoError THEN r.obj.list.size ELSE 0
    /\ op' = "enqueue"
    /\ args' = [NoArgs EXCEPT !.items = items]

QueueDequeue ==
    /\ obj.class = "TypeSafeQueue"
    /\ LET r == listPop(obj.list)
       IN  /\ obj' = [obj EXCEPT !.list = r.list]
           /\ ret' = r.value
    /\ op' = "dequeue"
    /\ args' = NoArgs
    /\ err' = NoError

StackPush(items) ==
    /\ obj.class = "TypeSafeStack"
    /\ obj.capacity # <<>> \/ obj.list.size + Len(items) <= MaxLen
    /\ LET r == stackPush(obj, items, 1)
       IN  /\ obj' = r.obj
           /\ err' = r.err
           /\ ret' = IF r.err = NoError THEN r.obj.list.size ELSE 0
    /\ op' = "push"
    /\ args' = [NoArgs EXCEPT !.items = items]

StackPop ==
    /\ obj.class = "TypeSafeStack"
    /\ LET r == listPop(obj.list)
       IN  /\ obj' = [obj EXCEPT !.list = r.list]
           /\ ret' = r.value
    /\ op' = "pop"
    /\ args' = NoArgs
    /\ err' = NoError

\* Queue.peek(): this._list.head.value; on an empty queue head is null and the
\* read is a TypeError.
queuePeek(this) ==
    IF this.list.head = NULL THEN [value |-> UNDEFINED, err |-> TypeError]
    ELSE [value |-> this.list.nodes[this.list.head].value, err |-> NoError]

\* Stack.peek(): this._list.tail.value.
stackPeek(this) ==
    IF this.list.tail = NULL THEN [value |-> UNDEFINED, err |-> TypeError]
    ELSE [value |-> this.list.nodes[this.list.tail].value, err |-> NoError]

QueuePeek ==
    /\ obj.class = "TypeSafeQueue"
    /\ ret' = queuePeek(obj).value
    /\ err' = queuePeek(obj).err
    /\ op' = "peek"
    /\ args' = NoArgs
    /\ UNCHANGED obj

StackPeek ==
    /\ obj.class = "TypeSafeStack"
    /\ ret' = stackPeek(obj).value
    /\ err' = stackPeek(obj).err
    /\ op' = "peek"
    /\ args' = NoArgs
    /\ UNCHANGED obj

\* A capacity setter that stores any bound.
SetCapacityUnchecked(maxCapacity) ==
    /\ obj.class \in {"TypeSafeQueue", "TypeSafeStack"}
    /\ obj' = [obj EXCEPT !.capacity = <<maxCapacity>>]
    /\ err' = NoError
    /\ op' = "capacity"
    /\ args' = [NoArgs EXCEPT !.i = maxCapacity]
    /\ ret' = 0

\* set capacity(maxCapacity), the same in Queue and Stack.
SetCapacity(maxCapacity) ==
    /\ obj.class \in {"TypeSafeQueue", "TypeSafeStack"}
    /\ IF maxCapacity >= obj.list.size
       THEN /\ obj' = [obj EXCEPT !.capacity = <<maxCapacity>>]
            /\ err' = NoError
       ELSE /\ UNCHANGED obj
            /\ err' = ErrorCapacity
    /\ op' = "capacity"
    /\ args' = [NoArgs EXCEPT !.i = maxCapacity]
    /\ ret' = 0

\* ---------------------------------------------------------------- TypeSafeSet
\* A set object holds its type and its entries in insertion order.
\* add without the check of the value's type.
setAddUnchecked(this, value) ==
    [obj |-> IF \E k \in 1..Len(this.entries) : this.entries[k] = value
             THEN this
             ELSE [this EXCEPT !.entries = Append(this.entries, value)],
     err |-> NoError]

\* TypeSafeSet.add(value), on the built-in Set.
setAdd(this, value) ==
    IF isType(value, this.type)
    THEN [obj |-> IF \E k \in 1..Len(this.entries) : this.entries[k] = value
                  THEN this
                  ELSE [this EXCEPT !.entries = Append(this.entries, value)],
          err |-> NoError]
    ELSE [obj |-> this, err |-> ErrorTypeSafe]

\* items.forEach(item => this.add(item)), from item k on.
RECURSIVE setAddEach(_, _, _)
setAddEach(this, items, k) ==
    IF k > Len(items) THEN [obj |-> this, err |-> NoError]
    ELSE LET r == setAdd(this, items[k])
         IN  IF r.err # NoError THEN r ELSE setAddEach(r.obj, items, k + 1)

\* new TypeSafeSet(type, ...items)
newSet(type, items) ==
    LET fresh == [class |-> "TypeSafeSet", type |-> type, entries |-> <<>>]
    IN  IF isInitialized(items) /\ getArrayType(items) # type
        THEN [obj |-> Null, err |-> ErrorTypeSafe]
        ELSE LET r == setAddEach(fresh, items, 1)
             IN  IF r.err = NoError THEN r ELSE [obj |-> Null, err |-> r.err]

NewSet(type, items) ==
    LET r == newSet(type, items)
    IN  /\ obj' = r.obj
        /\ op' = "new"
        /\ args' = [NoArgs EXCEPT !.class = "TypeSafeSet", !.type = type, !.items = items]
        /\ ret' = 0
        /\ err' = r.err

SetAdd(value) ==
    /\ obj.class = "TypeSafeSet"
    /\ LET r == setAdd(obj, value)
       IN  /\ obj' = r.obj
           /\ err' = r.err
    /\ op' = "add"
    /\ args' = [NoArgs EXCEPT !.x = value]
    /\ ret' = 0

\* Set.prototype.delete(value), inherited from the built-in Set.
SetDelete(value) ==
    /\ obj.class = "TypeSafeSet"
    /\ obj' = [obj EXCEPT !.entries = SelectSeq(obj.entries, LAMBDA e : e # value)]
    /\ op' = "delete"
    /\ args' = [NoArgs EXCEPT !.x = value]
    /\ ret' = \E k \in 1..Len(obj.entries) : obj.entries[k] = value
    /\ err' = NoError

\* ---------------------------------------------------------------- specification
Init ==
    /\ obj = newSortedArray("Number", <<>>, <<>>).obj
    /\ op = "new"
    /\ args = NoArgs
    /\ ret = 0
    /\ err = NoError

\* The sorted array under all of its mutating methods.
NextSorted ==
    \/ \E p \in CompareArgs : NewSortedArray(p[1], p[2], <<>>)
    \/ \E items \in ItemLists : SortedAdd(items)
    \/ \E s \in 0..MaxLen, d \in {<<>>} \cup {<<n>> : n \in 0..MaxLen} : SortedSplice(s, d)
    \/ \E x \in Values, s \in 0..MaxLen, e \in 0..MaxLen : s <= e /\ SortedFill(x, s, e)
    \/ SortedPop
    \/ SortedShift
    \/ \E c \in ComparesOf(obj.type) : SortedSetCompareFunction(c)

SpecSorted == Init /\ [][NextSorted]_vars

\* Sequences of add calls with items of the declared type.
NextAdd ==
    \/ \E p \in CompareArgs : NewSortedArray(p[1], p[2], <<>>)
    \/ \E items \in ItemListsOf(obj.type) : SortedAdd(items)
    \/ \E c \in ComparesOf(obj.type) : SortedSetCompareFunction(c)

SpecAdd == Init /\ [][NextAdd]_vars

\* The binary-search queries on the arrays add builds.
NextSearch ==
    \/ \E p \in CompareArgs : NewSortedArray(p[1], p[2], <<>>)
    \/ \E x \in ValuesOf(obj.type) : SortedAdd(<<x>>)
    \/ \E x \in Values, f \in 0..MaxLen : SortedIncludes(x, f)
    \/ \E x \in Values, f \in 0..MaxLen : SortedIndexOf(x, f)
    \/ \E x \in Values, f \in 0..MaxLen : SortedLastIndexOf(x, f)

SpecSearch == Init /\ [][NextSearch]_vars

\* The values given to the type safe array and linked list: two of one type,
\* one of the other.
TypedValues == {Num(0), Num(1), Str(0)}

TypedItemLists == UNION {[1..n -> TypedValues] : n \in 1..MaxItems}

\* The type safe array and the type safe linked list.
InitTyped ==
    /\ obj = newArray("Number", <<>>).obj
    /\ op = "new"
    /\ args = NoArgs
    /\ ret = 0
    /\ err = NoError

NextTyped ==
    \/ \E type \in TYPE : NewArray(type, <<>>)
    \/ \E type \in TYPE, x \in TypedValues : NewLinkedList(type, <<x>>)
    \/ \E items \in TypedItemLists : ArrayPush(items)
    \/ \E items \in TypedItemLists : ArrayUnshift(items)
    \/ \E i \in 0..MaxLen, x \in TypedValues : ArraySetAt(i, x)
    \/ \E x \in TypedValues, s \in 0..MaxLen, e \in 0..MaxLen : s < e /\ ArrayFillRange(x, s, e)
    \/ \E s \in 0..MaxLen, d \in 0..1, items \in TypedItemLists : ArraySpliceItems(s, <<d>>, items)
    \/ ArrayPop
    \/ \E items \in TypedItemLists : ListPush(items)
    \/ \E items \in TypedItemLists : ListUnshift(items)
    \/ \E i \in 0..MaxLen, x \in TypedValues : ListSet(i, x)
    \/ ListPop
    \/ ListShift

SpecTyped == InitTyped /\ [][NextTyped]_vars

\* The type safe queue and the type safe stack.
InitAdapters ==
    /\ obj = newAdapter("TypeSafeQueue", "Number", <<Num(0)>>).obj
    /\ op = "new"
    /\ args = [NoArgs EXCEPT !.class = "TypeSafeQueue", !.type = "Number", !.items = <<Num(0)>>]
    /\ ret = 0
    /\ err = NoError

NextAdapters ==
    \/ \E type \in TYPE, x \in TypedValues : NewQueue(type, <<x>>)
    \/ \E type \in TYPE, x \in TypedValues : NewStack(type, <<x>>)
    \/ \E items \in TypedItemLists : QueueEnqueue(items)
    \/ QueueDequeue
    \/ \E items \in TypedItemLists : StackPush(items)
    \/ StackPop
    \/ \E m \in 0..MaxLen : SetCapacity(m)

SpecAdapters == InitAdapters /\ [][NextAdapters]_vars

\* The constructors.
InitNew ==
    /\ obj = Null
    /\ op = "none"
    /\ args = NoArgs
    /\ ret = 0
    /\ err = NoError

NextNew ==
    \/ \E type \in TYPE, items \in ItemLists \cup {<<>>} : NewArray(type, items)
    \/ \E p \in CompareArgs, items \in ItemLists \cup {<<>>} :
          NewSortedArray(p[1], p[2], items)
    \/ \E type \in TYPE, items \in ItemLists \cup {<<>>} : NewLinkedList(type, items)
    \/ \E type \in TYPE, items \in ItemLists \cup {<<>>} : NewSet(type, items)

SpecNew == InitNew /\ [][NextNew]_vars

\* setCompareFunction on sorted arrays and on arrays fill has put out of order.
NextResort ==
    \/ \E p \in CompareArgs : NewSortedArray(p[1], p[2], <<>>)
    \/ \E x \in ValuesOf(obj.type) : SortedAdd(<<x>>)
    \/ \E x \in ValuesOf(obj.type), s \in 0..(MaxLen - 1) : SortedFill(x, s, s + 1)
    \/ \E c \in ComparesOf(obj.type) : SortedSetCompareFunction(c)

SpecResort == Init /\ [][NextResort]_vars

\* The copying methods of the sorted array, on sorted arrays and on arrays fill
\* has put out of order.
NextCopy ==
    \/ \E p \in CompareArgs : NewSortedArray(p[1], p[2], <<>>)
    \/ \E x \in ValuesOf(obj.type) : SortedAdd(<<x>>)
    \/ \E x \in ValuesOf(obj.type), s \in 0..(MaxLen - 1) : SortedFill(x, s, s + 1)
    \/ \E s \in 0..MaxLen, e \in 0..MaxLen : s <= e /\ SortedSlice(s, e)
    \/ \E callback \in Callbacks : SortedFilter(callback)

SpecCopy == Init /\ [][NextCopy]_vars

\* The copying methods of the linked list.
InitListCopy ==
    /\ obj = newLinkedList("Number", <<Num(0)>>).obj
    /\ op = "new"
    /\ args = [NoArgs EXCEPT !.class = "TypeSafeLinkedList", !.type = "Number",
                            !.items = <<Num(0)>>]
    /\ ret = 0
    /\ err = NoError

NextListCopy ==
    \/ \E type \in TYPE, x \in TypedValues : NewLinkedList(type, <<x>>)
    \/ \E items \in TypedItemLists : ListPush(items)
    \/ \E i \in 0..MaxLen, x \in TypedValues : ListSet(i, x)
    \/ ListShift
    \/ \E callback \in Callbacks : ListFilter(callback)
    \/ \E transform \in Transforms : ListMap(transform)

SpecListCopy == InitListCopy /\ [][NextListCopy]_vars

\* map on the sorted array.
NextMap ==
    \/ \E p \in CompareArgs : NewSortedArray(p[1], p[2], <<>>)
    \/ \E x \in ValuesOf(obj.type) : SortedAdd(<<x>>)
    \/ SortedPop
    \/ \E transform \in Transforms : SortedMap(transform)

SpecMap == Init /\ [][NextMap]_vars

\* The type safe set.
NextSet ==
    \/ \E type \in TYPE, items \in ItemLists \cup {<<>>} : NewSet(type, items)
    \/ \E x \in Values : SetAdd(x)
    \/ \E x \in Values : SetDelete(x)

SpecSet == InitNew /\ [][NextSet]_vars

\* Calls with no items: constructors and push/unshift, next to calls with one
\* item.  "Undefined" is the tag getType gives the value undefined.
TypeTags == TYPE \cup {"Undefined"}

ZeroOrOneItem == {<<>>} \cup {<<x>> : x \in TypedValues}

NextEmpty ==
    \/ \E type \in TypeTags, items \in ZeroOrOneItem : NewArray(type, items)
    \/ \E type \in TypeTags, items \in ZeroOrOneItem : NewLinkedList(type, items)
    \/ \E type \in TypeTags, items \in ZeroOrOneItem : NewQueue(type, items)
    \/ \E type \in TypeTags, items \in ZeroOrOneItem : NewStack(type, items)
    \/ \E items \in ZeroOrOneItem : ArrayPush(items)
    \/ \E items \in ZeroOrOneItem : ArrayUnshift(items)
    \/ \E items \in ZeroOrOneItem : ListPush(items)
    \/ \E items \in ZeroOrOneItem : ListUnshift(items)

SpecEmpty == InitNew /\ [][NextEmpty]_vars


\* concat on the type safe array.
NextConcat ==
    \/ \E type \in TYPE : NewArray(type, <<>>)
    \/ \E items \in TypedItemLists : ArrayPush(items)
    \/ ArrayPop
    \/ \E items \in TypedItemLists \cup {<<>>} : ArrayConcat(items)

SpecConcat == InitTyped /\ [][NextConcat]_vars

\* The linked list under its mutating methods.
NextList ==
    \/ \E type \in TYPE, x \in TypedValues : NewLinkedList(type, <<x>>)
    \/ \E items \in TypedItemLists : ListPush(items)
    \/ \E items \in TypedItemLists : ListUnshift(items)
    \/ \E i \in 0..MaxLen, x \in TypedValues : ListSet(i, x)
    \/ ListPop
    \/ ListShift
    \/ \E i \in 0..MaxLen : ListRemove(i)
    \/ \E x \in TypedValues : ListRemoveByValue(x)

SpecList == InitListCopy /\ [][NextList]_vars

\* The linked list under sort, with a compare function for its type.
NextListSort ==
    \/ \E type \in TYPE : \E x \in ValuesOf(type) : NewLinkedList(type, <<x>>)
    \/ \E x \in Values : ListPush(<<x>>)
    \/ \E x \in Values : ListUnshift(<<x>>)
    \/ ListShift
    \/ \E c \in ComparesOf(obj.type) : ListSort(c)

SpecListSort == InitListCopy /\ [][NextListSort]_vars

\* Queues and stacks without a capacity bound, built from and fed with one or
\* more items at a time.
NextUnbounded ==
    \/ \E type \in TYPE, items \in TypedItemLists : NewQueue(type, items)
    \/ \E type \in TYPE, items \in TypedItemLists : NewStack(type, items)
    \/ \E items \in TypedItemLists : QueueEnqueue(items)
    \/ QueueDequeue
    \/ QueuePeek
    \/ \E items \in TypedItemLists : StackPush(items)
    \/ StackPop
    \/ StackPeek

SpecUnbounded == InitAdapters /\ [][NextUnbounded]_vars

\* indexOf and lastIndexOf on sorted arrays of numbers and of undefined values.
WalkArgs ==
    {<<"Number", <<>>>>, <<"Undefined", <<>>>>, <<"Undefined", <<"NUMBER">>>>}

WalkValues == NumberValues \cup {UNDEFINED}

NextWalk ==
    \/ \E p \in WalkArgs : NewSortedArray(p[1], p[2], <<>>)
    \/ \E x \in WalkValues : SortedAdd(<<x>>)
    \/ \E x \in WalkValues, f \in 0..MaxLen : SortedIndexOf(x, f)
    \/ \E x \in WalkValues, f \in 0..MaxLen : SortedLastIndexOf(x, f)

SpecWalk == Init /\ [][NextWalk]_vars

\* ---------------------------------------------------------------- properties
IsSorted(array, c) ==
    \A k \in 1..(Len(array) - 1) : COMPARE(c, array[k], array[k + 1]) <= 0

Occurs(array, x) == \E k \in 1..Len(array) : array[k] = x

IndicesOf(array, x) == {k \in 0..(Len(array) - 1) : At(array, k) = x}

MinOf(S) == CHOOSE m \in S : \A n \in S : m <= n
MaxOf(S) == CHOOSE m \in S : \A n \in S : m >= n

BagOf(array) ==
    [x \in {array[k] : k \in 1..Len(array)} |->
        Cardinality({k \in 1..Len(array) : array[k] = x})]

CountNotGreater(array, c, x) ==
    Cardinality({k \in 1..Len(array) : COMPARE(c, array[k], x) <= 0})

InsertAt(array, index, x) ==
    SubSeq(array, 1, index) \o <<x>> \o SubSeq(array, index + 1, Len(array))

\* C1: between any two public calls the sorted array's elements are
\* non-descending under its current comparator.
C1_SortedBetweenCalls ==
    obj.class = "TypeSafeSortedArray" => IsSorted(obj.array, obj.compare)

\* C2: every add call with items of the declared type leaves the array sorted
\* and holding exactly the elements it held plus the items added.
C2_AddKeepsOrderAndElements ==
    [][op' = "add" =>
          /\ err' = NoError
          /\ IsSorted(obj'.array, obj'.compare)
          /\ BagOf(obj'.array) = BagOf(obj.array) (+) BagOf(args'.items)]_vars

C2_Witness ==
    /\ op = "add"
    /\ Len(args.items) = 2
    /\ Len(obj.array) = 3
    /\ args.items[1] # args.items[2]
    /\ obj.array[1] = args.items[2]
    /\ obj.array[3] # args.items[1]

\* C3: on a sorted array includes(x) is true exactly when x occurs among the
\* stored elements.
C3_IncludesIffOccurs ==
    (op = "includes" /\ args.i = 0 /\ IsSorted(obj.array, obj.compare))
        => (ret <=> Occurs(obj.array, args.x))

\* C4: on a sorted array indexOf(x) is the least and lastIndexOf(x) the greatest
\* index holding x, and both are -1 when x does not occur.
C4_FirstAndLastOccurrence ==
    (op \in {"indexOf", "lastIndexOf"} /\ args.i = 0
        /\ IsSorted(obj.array, obj.compare))
        => ret = IF ~Occurs(obj.array, args.x) THEN -1
                 ELSE IF op = "indexOf" THEN MinOf(IndicesOf(obj.array, args.x))
                 ELSE MaxOf(IndicesOf(obj.array, args.x))

\* C5: with 0 < fromIndex < length, a result of indexOf/lastIndexOf other than
\* -1 is an index of the whole array, at or after fromIndex, that holds x.
C5_FromIndexInFullCoordinates ==
    (op \in {"indexOf", "lastIndexOf"} /\ args.i > 0 /\ args.i < Len(obj.array)
        /\ IsSorted(obj.array, obj.compare) /\ ret # -1)
        => (ret >= args.i /\ At(obj.array, ret) = args.x)

\* C6: add(x) on a sorted array puts x at the index that equals the number of
\* stored elements not greater than x: after its ties, before the greater ones.
C6_InsertAfterTies ==
    [][(op' = "add" /\ Len(args'.items) = 1 /\ err' = NoError
            /\ IsSorted(obj.array, obj.compare))
          => obj'.array =
                InsertAt(obj.array,
                         CountNotGreater(obj.array, obj.compare, args'.items[1]),
                         args'.items[1])]_vars

C6_Witness ==
    /\ op = "add"
    /\ Len(args.items) = 1
    /\ Len(obj.array) = 3
    /\ obj.array[2] = args.items[1]
    /\ obj.array[1] # args.items[1]
    /\ COMPARE(obj.compare, obj.array[1], obj.array[2]) = 0
    /\ COMPARE(obj.compare, obj.array[2], obj.array[3]) < 0

\* C7: an add call with an argument of another type raises the type error and
\* leaves the array as it was.
C7_AddAllOrNothing ==
    [][(op' = "add" /\ \E k \in 1..Len(args'.items) : ~isType(args'.items[k], obj.type))
          => (err' = ErrorTypeSafe /\ obj' = obj)]_vars

\* "Some argument of the last call is not of the declared type", for the
\* mutators that take items and those that take one value.
SomeItemOfOtherType(items, type) == \E k \in 1..Len(items) : ~isType(items[k], type)

\* C8: enqueue on a type safe queue, or push on a type safe stack, with an item
\* of another type raises the type error and leaves the container as it was.
C8_AdapterAllOrNothing ==
    [][(op' \in {"enqueue", "push"} /\ SomeItemOfOtherType(args'.items, obj.list.type))
          => (err' = ErrorTypeSafe /\ obj' = obj)]_vars

\* C9: push, unshift, set, fill and splice with items on a type safe array or
\* linked list, given a value of another type, raise the type error and change
\* nothing.
C9_TypedMutatorsValidateFirst ==
    [][(\/ op' \in {"push", "unshift", "splice"}
           /\ SomeItemOfOtherType(args'.items, obj.type)
        \/ op' \in {"set", "fill"} /\ ~isType(args'.x, obj.type))
          => (err' = ErrorTypeSafe /\ obj' = obj)]_vars

C9_Witness ==
    /\ op = "push"
    /\ err = ErrorTypeSafe
    /\ obj.class = "TypeSafeLinkedList"
    /\ obj.size = 1
    /\ Len(args.items) = 2
    /\ isType(args.items[1], obj.type)
    /\ ~isType(args.items[2], obj.type)

\* What a freshly constructed container holds.
Holds(this, items) ==
    CASE this.class = "TypeSafeArray" -> this.array = items
      [] this.class = "TypeSafeSortedArray" ->
            BagOf(this.array) = BagOf(items) /\ IsSorted(this.array, this.compare)
      [] this.class = "TypeSafeLinkedList" ->
            listValues(this) = items /\ this.size = Len(items)
      [] this.class = "TypeSafeSet" ->
            /\ {this.entries[k] : k \in 1..Len(this.entries)}
                  = {items[k] : k \in 1..Len(items)}
            /\ \A k, l \in 1..Len(this.entries) :
                  this.entries[k] = this.entries[l] => k = l
      [] OTHER -> FALSE

C11_EmptyItemsAccepted ==
    [][/\ (op' = "new" /\ args'.items = <<>>
              /\ args'.class \in {"TypeSafeLinkedList", "TypeSafeQueue", "TypeSafeStack"})
            => (/\ err' = NoError
                /\ obj'.class = args'.class
                /\ IF obj'.class = "TypeSafeLinkedList" THEN obj'.size = 0
                   ELSE obj'.list.size = 0)
       /\ (op' \in {"push", "unshift"} /\ args'.items = <<>>)
            => (err' = NoError /\ obj' = obj)]_vars

\* C12: on a sorted array splice(start) without deleteCount removes and returns
\* the elements from start to the end, leaving the first start elements;
\* splice(start, n) removes and returns the n elements at start..start+n-1.
C12_SpliceRemovesRange ==
    [][op' = "splice" =>
          LET len == Len(obj.array)
              start == Min(args'.i, len)
              n == IF args'.j = <<>> THEN len - start
                   ELSE Min(args'.j[1], len - start)
          IN  /\ err' = NoError
              /\ ret' = SubSeq(obj.array, start + 1, start + n)
              /\ obj'.array = SubSeq(obj.array, 1, start)
                                \o SubSeq(obj.array, start + n + 1, len)]_vars

\* C13: setCompareFunction(c) keeps the stored elements (as a multiset) and
\* leaves them sorted under c, which becomes the array's comparator; every add
\* on an array sorted under its comparator leaves it sorted under the same one.
C13_ResortUnderNewComparator ==
    [][/\ op' = "setCompareFunction" =>
            /\ BagOf(obj'.array) = BagOf(obj.array)
            /\ IsSorted(obj'.array, obj'.compare)
       /\ (op' = "add" /\ IsSorted(obj.array, obj.compare)) =>
            /\ obj'.compare = obj.compare
            /\ IsSorted(obj'.array, obj'.compare)]_vars

C13_Witness ==
    /\ op = "setCompareFunction"
    /\ obj.compare = "NUMBER_DESCENDING"
    /\ Len(obj.array) = 3
    /\ obj.array[1].v > obj.array[2].v
    /\ obj.array[2].v > obj.array[3].v

\* C14: on a queue with capacity c >= 1, enqueue of one item of the declared
\* type raises no error and leaves the item in front of the previous contents
\* cut to the c newest (the oldest is evicted when full); dequeue removes and
\* returns the oldest item.
C14_BoundedQueueKeepsNewest ==
    [][/\ (/\ op' = "enqueue"
           /\ obj.capacity # <<>>
           /\ obj.capacity[1] >= 1
           /\ Len(args'.items) = 1
           /\ isType(args'.items[1], obj.list.type))
            => /\ err' = NoError
               /\ listValues(obj'.list) =
                    SubSeq(args'.items \o listValues(obj.list), 1,
                           Min(obj.list.size + 1, obj.capacity[1]))
               /\ obj'.list.size = Min(obj.list.size + 1, obj.capacity[1])
       /\ (op' = "dequeue" /\ obj.list.size > 0)
            => /\ ret' = listValues(obj.list)[obj.list.size]
               /\ listValues(obj'.list) =
                    SubSeq(listValues(obj.list), 1, obj.list.size - 1)]_vars

C14_Witness ==
    /\ op = "enqueue"
    /\ obj.class = "TypeSafeQueue"
    /\ obj.capacity = <<2>>
    /\ args.items = <<Num(0)>>
    /\ listValues(obj.list) = <<Num(0), Num(1)>>

\* C15: push(x), x of the declared type, on a stack whose size equals its
\* capacity evicts the oldest element held (the one pushed earliest) and admits
\* x on top without error.
C15_FullStackEvictsOldest ==
    [][(/\ op' = "push"
        /\ obj.class = "TypeSafeStack"
        /\ obj.capacity = <<obj.list.size>>
        /\ obj.list.size >= 1
        /\ Len(args'.items) = 1
        /\ isType(args'.items[1], obj.list.type))
          => /\ err' = NoError
             /\ listValues(obj'.list) =
                  SubSeq(listValues(obj.list), 2, obj.list.size) \o args'.items]_vars

\* C16: setting the capacity of a queue or stack to m stores m when m is at
\* least the current size; otherwise it raises the capacity error and leaves
\* the capacity and the contents as they were; no other operation raises the
\* capacity error.
C16_CapacitySetter ==
    [][/\ op' = "capacity" =>
            IF args'.i >= obj.list.size
            THEN /\ err' = NoError
                 /\ obj' = [obj EXCEPT !.capacity = <<args'.i>>]
            ELSE /\ err' = ErrorCapacity
                 /\ obj' = obj
       /\ op' # "capacity" => err' # ErrorCapacity]_vars

C16_Witness ==
    /\ op = "capacity"
    /\ err = ErrorCapacity
    /\ args.i = 1
    /\ obj.capacity = <<2>>
    /\ obj.list.size = 2

\* C17: on a sorted array in any reachable state slice(0, length) and
\* filter(always-true) return a new sorted array of the same type and comparator
\* whose elements are the receiver's in the same order; filter(p) returns the
\* elements satisfying p in their original order; the receiver is unchanged.
C17_CopiesKeepOrder ==
    [][/\ (op' = "slice" /\ args'.i = 0 /\ args'.j = <<Len(obj.array)>>)
            => /\ err' = NoError
               /\ ret' = obj
               /\ obj' = obj
       /\ op' = "filter"
            => /\ err' = NoError
               /\ ret' = [obj EXCEPT !.array = ArrayFilter(obj.array, args'.callback)]
               /\ obj' = obj]_vars

\* C18: on a linked list filter(p) gives p each element's value and returns a
\* new list of the values for which p holds, in order (all of them for an
\* always-true p); the receiver is unchanged.
C18_ListFilterKeepsValues ==
    [][(op' = "filter" /\ obj.class = "TypeSafeLinkedList")
          => /\ err' = NoError
             /\ listValues(ret') = ArrayFilter(listValues(obj), args'.callback)
             /\ obj' = obj]_vars

\* C19: map on a non-empty sorted array applies the transform to every element;
\* results of one type give a new sorted array of that type holding exactly the
\* results, sorted under the default comparator of that type; results of mixed
\* types give the plain sequence of the results in the receiver's order.
C19_MapRederivesType ==
    [][(op' = "map" /\ Len(obj.array) > 0) =>
          LET results == ArrayMap(obj.array, args'.callback)
              tag == results[1].tag
          IN  /\ err' = NoError
              /\ obj' = obj
              /\ IF \A k \in 1..Len(results) : results[k].tag = tag
                 THEN /\ ret'.class = "TypeSafeSortedArray"
                      /\ ret'.type = tag
                      /\ ret'.compare = setDefaultCompare(tag)
                      /\ BagOf(ret'.array) = BagOf(results)
                      /\ IsSorted(ret'.array, ret'.compare)
                 ELSE ret' = [class |-> "Array", array |-> results]]_vars

\* C20: a type safe set holds only values of its declared type, each once; add
\* of a value of another type raises the type error and leaves the set
\* unchanged; add of a value already present leaves it unchanged without error;
\* add of a new value of the declared type appends it.
C20_SetTypedAndUnique ==
    [][/\ obj'.class = "TypeSafeSet" =>
            /\ \A k \in 1..Len(obj'.entries) : isType(obj'.entries[k], obj'.type)
            /\ \A k, l \in 1..Len(obj'.entries) :
                  obj'.entries[k] = obj'.entries[l] => k = l
       /\ op' = "add" =>
            IF ~isType(args'.x, obj.type)
            THEN err' = ErrorTypeSafe /\ obj' = obj
            ELSE IF \E k \in 1..Len(obj.entries) : obj.entries[k] = args'.x
            THEN err' = NoError /\ obj' = obj
            ELSE err' = NoError
                 /\ obj' = [obj EXCEPT !.entries = Append(obj.entries, args'.x)]]_vars

C20_Witness ==
    /\ op = "add"
    /\ obj.class = "TypeSafeSet"
    /\ err = ErrorTypeSafe
    /\ Len(obj.entries) = 2
    /\ ~isType(args.x, obj.type)

\* C21: concat(items) on a type safe array raises the type error whenever some
\* item is not of the declared type, whatever the receiver (the empty one
\* included); otherwise it returns a new type safe array of the declared type
\* holding the receiver's elements followed by the items; the receiver is
\* unchanged either way.
C21_ConcatChecksItems ==
    [][op' = "concat" =>
          /\ obj' = obj
          /\ IF SomeItemOfOtherType(args'.items, obj.type)
             THEN err' = ErrorTypeSafe
             ELSE /\ err' = NoError
                  /\ ret' = [class |-> "TypeSafeArray", type |-> obj.type,
                             array |-> obj.array \o args'.items]]_vars

\* C22: without a capacity bound a queue is FIFO and a stack is LIFO.  The
\* list runs from the newest to the oldest item of a queue and from the oldest
\* to the newest of a stack: a single-item enqueue puts the item in front, a
\* single-item push puts it at the end, and dequeue and pop each remove and
\* return the last item, all other items staying in place.
C22_FifoAndLifo ==
    [][obj.class \in {"TypeSafeQueue", "TypeSafeStack"} /\ obj.capacity = <<>> =>
          /\ (op' = "enqueue" /\ Len(args'.items) = 1
                  /\ isType(args'.items[1], obj.list.type))
                => /\ err' = NoError
                   /\ listValues(obj'.list) = args'.items \o listValues(obj.list)
          /\ (op' = "push" /\ Len(args'.items) = 1
                  /\ isType(args'.items[1], obj.list.type))
                => /\ err' = NoError
                   /\ listValues(obj'.list) = listValues(obj.list) \o args'.items
          /\ (op' \in {"dequeue", "pop"} /\ obj.list.size > 0)
                => /\ ret' = listValues(obj.list)[obj.list.size]
                   /\ listValues(obj'.list) =
                        SubSeq(listValues(obj.list), 1, obj.list.size - 1)
                   /\ obj'.list.size = obj.list.size - 1]_vars

C22_Witness ==
    /\ op = "dequeue"
    /\ obj.class = "TypeSafeQueue"
    /\ obj.capacity = <<>>
    /\ ret = Num(0)
    /\ listValues(obj.list) = <<Num(0), Num(1)>>

\* C23: after any sequence of successful mutations of a type safe array every
\* position 0..length-1 holds a value of the declared type.
C23_EveryElementTyped ==
    obj.class = "TypeSafeArray" =>
        \A k \in 0..(Len(obj.array) - 1) : isType(At(obj.array, k), obj.type)

\* C24: map(callback) on a non-empty type safe linked list gives the callback
\* each element's value in head-to-tail order and returns a list of the results
\* in that order: a type safe list of the results' common type when they share
\* one (so the identity gives the receiver's type and values), a plain list
\* otherwise; the receiver is unchanged.
C24_ListMapKeepsOrder ==
    [][(op' = "map" /\ obj.class = "TypeSafeLinkedList" /\ obj.size > 0) =>
          LET results == ArrayMap(listValues(obj), args'.callback)
              tag == results[1].tag
          IN  /\ err' = NoError
              /\ obj' = obj
              /\ listValues(ret') = results
              /\ IF \A k \in 1..Len(results) : results[k].tag = tag
                 THEN ret'.class = "TypeSafeLinkedList" /\ ret'.type = tag
                 ELSE ret'.class = "LinkedList"]_vars

\* The node references from a node along next, and from a node along prev.
RECURSIVE NodesAlongNext(_, _)
NodesAlongNext(this, node) ==
    IF node = NULL THEN <<>>
    ELSE <<node>> \o NodesAlongNext(this, this.nodes[node].next)

RECURSIVE NodesAlongPrev(_, _)
NodesAlongPrev(this, node) ==
    IF node = NULL THEN <<>>
    ELSE <<node>> \o NodesAlongPrev(this, this.nodes[node].prev)

Reverse(s) == [k \in 1..Len(s) |-> s[Len(s) + 1 - k]]

WellLinked(this) ==
    LET forward == NodesAlongNext(this, this.head)
    IN  /\ this.size >= 0
        /\ this.size = Len(forward)
        /\ (this.head = NULL /\ this.tail = NULL) <=> this.size = 0
        /\ this.head = NULL <=> this.tail = NULL
        /\ this.head # NULL => this.nodes[this.head].prev = NULL
        /\ this.tail # NULL => this.nodes[this.tail].next = NULL
        /\ \A k \in 1..(Len(forward) - 1) :
              this.nodes[this.nodes[forward[k]].next].prev = forward[k]
        /\ NodesAlongPrev(this, this.tail) = Reverse(forward)

\* C25: after every push, unshift, pop, shift, remove, removeByValue and set on
\* a linked list: size is the number of nodes reachable from head and is not
\* negative, head and tail are null exactly when size is 0, head.prev and
\* tail.next are null, n.next.prev is n for every node but the tail, and the
\* walk from tail along prev is the reverse of the walk from head; pop, shift
\* and remove on an empty list or an index out of range return undefined and
\* change nothing.
C25_ListStaysWellLinked ==
    [][obj'.class = "TypeSafeLinkedList" =>
          /\ WellLinked(obj')
          /\ (\/ op' \in {"pop", "shift"} /\ obj.size = 0
              \/ op' = "remove" /\ args'.i >= obj.size)
                => (ret' = UNDEFINED /\ obj' = obj)]_vars

C25_Witness ==
    /\ op = "remove"
    /\ args.i = 1
    /\ ret # UNDEFINED
    /\ obj.size = 2

\* after is before rearranged so that it is non-descending under c and values
\* that rank equal keep their order.
IsStableSortOf(after, before, c) ==
    /\ Len(after) = Len(before)
    /\ \A i, j \in 1..Len(after) : i < j => COMPARE(c, after[i], after[j]) <= 0
    /\ \E p \in [1..Len(after) -> 1..Len(after)] :
          /\ \A i, j \in 1..Len(after) : i # j => p[i] # p[j]
          /\ \A i \in 1..Len(after) : after[i] = before[p[i]]
          /\ \A i, j \in 1..Len(after) :
                (i < j /\ COMPARE(c, after[i], after[j]) = 0) => p[i] < p[j]

Links(this) ==
    [n \in DOMAIN this.nodes |-> <<this.nodes[n].prev, this.nodes[n].next>>]

\* C26: sort(compare) returns for every list, the empty and the one-element
\* list too; the values from head to tail are then the previous values in
\* non-descending order under compare, equal-ranked values in their previous
\* order; head, tail, size and every prev/next link are as before.
C26_SortIsStableInPlace ==
    [][op' = "sort" =>
          /\ err' = NoError
          /\ IsStableSortOf(listValues(obj'), listValues(obj), args'.callback)
          /\ BagOf(listValues(obj')) = BagOf(listValues(obj))
          /\ obj'.head = obj.head
          /\ obj'.tail = obj.tail
          /\ obj'.size = obj.size
          /\ Links(obj') = Links(obj)]_vars

C26_Witness ==
    /\ op = "sort"
    /\ err = NoError
    /\ args.callback = "BY_HALF"
    /\ listValues(obj) = <<Num(1), Num(0), Num(2)>>

\* C27: once the capacity of a queue or stack has been set to some c >= 0,
\* c = 0 included, its size is at most its capacity after every enqueue/push,
\* dequeue/pop and capacity assignment.
C27_SizeWithinCapacity ==
    (obj.class \in {"TypeSafeQueue", "TypeSafeStack"} /\ obj.capacity # <<>>)
        => obj.list.size <= obj.capacity[1]

\* C28: peek() on a queue holding at least one element returns the element the
\* next dequeue() will return and changes nothing; peek() on a stack holding at
\* least one element returns the element the next pop() will return.
C28_PeekIsNextRemoved ==
    [][(op' = "peek" /\ obj.list.size >= 1)
          => /\ err' = NoError
             /\ obj' = obj
             /\ ret' = listPop(obj.list).value]_vars

\* What successive dequeue calls return until the queue is empty.
RECURSIVE DequeueAll(_)
DequeueAll(list) ==
    IF list.size = 0 THEN <<>>
    ELSE <<listPop(list).value>> \o DequeueAll(listPop(list).list)

\* The queue after enqueue(items[1]), enqueue(items[2]), ... one call each.
RECURSIVE EnqueueEach(_, _, _)
EnqueueEach(this, items, k) ==
    IF k > Len(items) THEN this
    ELSE EnqueueEach(queueEnqueue(this, <<items[k]>>, 1).obj, items, k + 1)

\* C29: items passed together to one enqueue call on an empty unbounded queue,
\* or to the queue constructor, are dequeued in argument order, as they are
\* after one enqueue call per item.
C29_ItemsKeepArgumentOrder ==
    [][(/\ obj'.class = "TypeSafeQueue"
        /\ err' = NoError
        /\ obj'.capacity = <<>>
        /\ \/ op' = "new"
           \/ op' = "enqueue" /\ obj.list.size = 0)
          => /\ DequeueAll(obj'.list) = args'.items
             /\ op' = "enqueue" =>
                  DequeueAll(obj'.list) = DequeueAll(EnqueueEach(obj, args'.items, 1).list)]_vars

\* C30: indexOf and lastIndexOf on a sorted array return for every array and
\* every search element, the undefined value in an array of type Undefined
\* included: the walk over a run of equal elements is not extended by a read
\* before index 0 or past the last index, so the index returned is -1 or a
\* position of the array.
C30_WalkStaysInside ==
    [][op' \in {"indexOf", "lastIndexOf"} =>
          /\ err' \notin {RangeError, Diverges}
          /\ err' = NoError => ret' \in -1..(Len(obj.array) - 1)]_vars

====
